---- MODULE Spec2Model ----
(***************************************************************************)
(* Model of src/app.py: the single-page capture pipeline crawl_website and *)
(* the functions it calls (dynamic_scroll, remove_unnecessary_elements,    *)
(* extract_metadata, parse_clean_html, extract_main_content,               *)
(* convert_html_to_markdown_precise, capture_screenshot, save_content).    *)
(*                                                                         *)
(* Strings are sequences of one-character strings.  A parsed document is   *)
(* the pre-order sequence of its nodes, each node carrying its tag, its    *)
(* class attribute and its depth below the BeautifulSoup root object.      *)
(***************************************************************************)
EXTENDS Integers, Sequences, FiniteSets

VARIABLES
    pc,                 \* position of the run inside crawl_website
    timeout,            \* the timeout argument of crawl_website, in ticks
    exc,                \* exception in flight, "none" when there is none
    quits,              \* number of driver.quit() calls made so far
    calls,              \* handle operations the run has invoked so far
    returned,           \* what the caller of crawl_website received
    elapsed,            \* time.time() - start_time of dynamic_scroll
    last_height,        \* dynamic_scroll local
    readings,           \* every height dynamic_scroll has read, in order
    cmds,               \* scrollTo commands dynamic_scroll has issued
    sleeps,             \* time.sleep calls dynamic_scroll has made
    exit,               \* how dynamic_scroll left its loop
    dom,                \* the live DOM held by the handle
    rule,               \* index of the next xpath of elements_to_remove
    looked,             \* per metadata field: what the handle had for it
    metadata,           \* extract_metadata's dict
    selected,           \* main_content as chosen at lines 107-110
    clean_html,         \* crawl_website local
    markdown,           \* converter.handle's output (line 134)
    levels,             \* heading levels the converter's input contained
    markdown_content,   \* convert_html_to_markdown_precise's return value
    text_content,       \* crawl_website local
    screenshot_path,    \* crawl_website local
    saved               \* files written by save_content

vars == <<pc, timeout, exc, quits, calls, returned, elapsed, last_height,
          readings, cmds, sleeps, exit, dom, rule, looked,
          metadata, selected, clean_html, markdown, levels,
          markdown_content, text_content, screenshot_path, saved>>

(***************************************************************************)
(* Bounds                                                                  *)
(***************************************************************************)
TicksPerSecond == 2
MaxTimeout == 5
MaxHeight == 4
MaxNodes == 2
MaxLen == 7
MaxHeadings == 2

None == "None"
Unset == "unset"
NoInt == -1
NoText == <<"None">>
NotRun == -1

(***************************************************************************)
(* Strings                                                                 *)
(***************************************************************************)
Str_ads == <<"a", "d", "s">>
Str_modal == <<"m", "o", "d", "a", "l">>
Str_cookie == <<"c", "o", "o", "k", "i", "e">>
Str_ad_banner == <<"a", "d", "-", "b", "a", "n", "n", "e", "r">>
NL == "\n"
Whitespace == {" ", NL}

\* XPath contains(haystack, needle)
Contains(s, sub) ==
    \E i \in 1..(Len(s) - Len(sub) + 1) : SubSeq(s, i, i + Len(sub) - 1) = sub

\* str.replace(old, new): left to right, non-overlapping, one pass
RECURSIVE Replace(_, _, _)
Replace(s, old, new) ==
    IF Len(s) < Len(old) THEN s
    ELSE IF SubSeq(s, 1, Len(old)) = old
         THEN new \o Replace(SubSeq(s, Len(old) + 1, Len(s)), old, new)
         ELSE <<s[1]>> \o Replace(Tail(s), old, new)

\* str.strip()
RECURSIVE LStrip(_)
LStrip(s) ==
    IF s # <<>> /\ s[1] \in Whitespace THEN LStrip(Tail(s)) ELSE s

RECURSIVE RStrip(_)
RStrip(s) ==
    IF s # <<>> /\ s[Len(s)] \in Whitespace
    THEN RStrip(SubSeq(s, 1, Len(s) - 1)) ELSE s

Strip(s) == RStrip(LStrip(s))

\* lines 137-141
FormatMarkdown(md) ==
    Strip(Replace(Replace(md, <<NL, NL>>, <<NL>>),
                  <<"#", "#", "#">>, <<"#", "#">>))

(***************************************************************************)
(* Parsed documents                                                        *)
(***************************************************************************)
NoAttr == <<>>
Element(t) == [tag |-> t, cls |-> NoAttr, id |-> NoAttr]
TextNode == Element("#text")
AdBannerDiv == [tag |-> "div", cls |-> Str_ad_banner, id |-> NoAttr]

Kinds == {Element("body"), Element("main"), Element("article"),
          Element("nav"), Element("aside"), AdBannerDiv, TextNode}

Node(k, dp) == [tag |-> k.tag, cls |-> k.cls, id |-> k.id, depth |-> dp]

Nodes == {Node(k, dp) : k \in Kinds, dp \in 1..MaxNodes}

\* pre-order sequences that are trees: a node is at most one level deeper
\* than its predecessor, and a string has no children
WellFormed(d) ==
    /\ Len(d) > 0 => d[1].depth = 1
    /\ \A i \in 2..Len(d) :
          /\ d[i].depth <= d[i - 1].depth + 1
          /\ d[i - 1].tag = "#text" => d[i].depth <= d[i - 1].depth

Docs == UNION {{d \in [1..n -> Nodes] : WellFormed(d)} : n \in 0..MaxNodes}

\* index of the last node of the subtree rooted at node i
SubtreeEnd(d, i) ==
    CHOOSE j \in i..Len(d) :
        /\ \A k \in (i + 1)..j : d[k].depth > d[i].depth
        /\ j = Len(d) \/ d[j + 1].depth <= d[i].depth

\* the nodes of the subtrees rooted at the given nodes
Covered(d, roots) ==
    {k \in 1..Len(d) : \E i \in roots : k \in i..SubtreeEnd(d, i)}

RECURSIVE KeepFrom(_, _, _)
KeepFrom(d, gone, i) ==
    IF i > Len(d) THEN <<>>
    ELSE (IF i \in gone THEN <<>> ELSE <<d[i]>>) \o KeepFrom(d, gone, i + 1)

\* Tag.decompose() / element.remove() on each of the given nodes
Decompose(d, roots) == KeepFrom(d, Covered(d, roots), 1)

\* the subtree rooted at node i as a tree of its own (str(tag))
Subtree(d, i) ==
    [k \in 1..(SubtreeEnd(d, i) - i + 1) |->
        Node(d[i + k - 1], d[i + k - 1].depth - d[i].depth + 1)]

\* soup.find(name): first element in document order, 0 for None
Find(d, name) ==
    IF \E i \in 1..Len(d) : d[i].tag = name
    THEN CHOOSE i \in 1..Len(d) :
            /\ d[i].tag = name
            /\ \A k \in 1..(i - 1) : d[k].tag # name
    ELSE 0

\* soup.find_all(names), as node indices
FindAll(d, names) == {i \in 1..Len(d) : d[i].tag \in names}

HasText(d) == \E i \in 1..Len(d) : d[i].tag = "#text"

\* line 152
CleanTags == {"header", "footer", "nav", "aside", "script", "style"}

\* lines 147-155
parse_clean_html(d) == Decompose(d, FindAll(d, CleanTags))

\* line 113
ContentTags == {"header", "footer", "nav", "script", "style", "aside", "form"}

\* lines 107-110: the node chosen as main_content, 0 for None
MainContent(d) ==
    IF Find(d, "main") # 0 THEN Find(d, "main")
    ELSE IF Find(d, "article") # 0 THEN Find(d, "article")
    ELSE Find(d, "body")

\* lines 113-114: find_all searches the descendants of main_content only
StripContent(sub) == Decompose(sub, FindAll(sub, ContentTags) \ {1})

\* line 117: the filter evaluates BeautifulSoup.Comment, an attribute the
\* class does not have, on every string below main_content
CommentFilterRaises(sub) == HasText(sub)

\* lines 102-120: the returned tree, or the exception raised
extract_main_content(d) ==
    IF MainContent(d) = 0
    THEN [raised |-> TRUE, tree |-> <<>>]
    ELSE LET sub == StripContent(Subtree(d, MainContent(d)))
         IN  IF CommentFilterRaises(sub)
             THEN [raised |-> TRUE, tree |-> <<>>]
             ELSE [raised |-> FALSE, tree |-> sub]

\* line 134, html2text: a heading of level n is n '#', a space, its text
\* and a blank line
RECURSIVE Hashes(_)
Hashes(n) == IF n = 0 THEN <<>> ELSE <<"#">> \o Hashes(n - 1)

HeadingBlock(n) == Hashes(n) \o <<" ", "a", NL, NL>>

RECURSIVE HeadingsText(_)
HeadingsText(ls) ==
    IF ls = <<>> THEN <<>> ELSE HeadingBlock(Head(ls)) \o HeadingsText(Tail(ls))

\* line 134, html2text: each string is emitted followed by a blank line
RECURSIVE Html2Text(_)
Html2Text(sub) ==
    IF sub = <<>> THEN <<NL, NL>>
    ELSE (IF Head(sub).tag = "#text" THEN <<"a", NL, NL>> ELSE <<>>)
         \o Html2Text(Tail(sub))

(***************************************************************************)
(* The handle (Selenium driver) as the run sees it                         *)
(***************************************************************************)
scroll_pause_time == 1 * TicksPerSecond

Heights == 1..MaxHeight
Timeouts == 0..MaxTimeout

CurrentUrl == "current_url"
BodyText == <<" ", "t", NL>>
ScreenshotFile == "screenshot.png"
BlankPage == <<>>

\* lines 76-81
elements_to_remove ==
    << [tag |-> "header", attr |-> "none", sub |-> NoAttr],
       [tag |-> "footer", attr |-> "none", sub |-> NoAttr],
       [tag |-> "nav", attr |-> "none", sub |-> NoAttr],
       [tag |-> "div", attr |-> "class", sub |-> Str_ads],
       [tag |-> "div", attr |-> "class", sub |-> Str_modal],
       [tag |-> "div", attr |-> "id", sub |-> Str_cookie] >>

\* does node n match the xpath r
XPathMatches(n, r) ==
    /\ n.tag = r.tag
    /\ \/ r.attr = "none"
       \/ r.attr = "class" /\ Contains(n.cls, r.sub)
       \/ r.attr = "id" /\ Contains(n.id, r.sub)

\* driver.find_elements(By.XPATH, r), as node indices
FindElements(d, r) == {i \in 1..Len(d) : XPathMatches(d[i], r)}

\* the first k of a set of node indices, in document order
FirstK(m, k) == {i \in m : Cardinality({j \in m : j < i}) < k}

\* lines 52-56, 65: the fields looked up one by one, in order
MetaFields == <<"title", "description", "author", "keywords", "language">>
MetaKeys == {MetaFields[i] : i \in 1..Len(MetaFields)} \cup {"canonicalUrl"}

\* what one lookup on the handle can do: return the value, raise because
\* the element is absent, or return None because the attribute is absent
Outcomes(f) == IF f = "title" THEN {"ok", "raise"} ELSE {"ok", "raise", "noattr"}

Content(f) ==
    CASE f = "title" -> "Page"
      [] f = "description" -> "About"
      [] f = "author" -> "Ada"
      [] f = "keywords" -> "k1,k2"
      [] f = "language" -> "en"

\* the value the lookup expression yields when it does not raise
LookupValue(f, o) == IF o = "ok" THEN Content(f) ELSE None

\* lines 48, 61, 66: except Exception
MetaCaughtUncaughtMissing(f, o) == f = "title"

MetaCaught(f, o) == TRUE

\* line 33
ScrollContinueLate(e, t) == e <= t + scroll_pause_time

ScrollContinue(e, t) == e < t

\* line 37
HeightStableOrShrunk(new_height, last) == new_height <= last

HeightStable(new_height, last) == new_height = last

\* lines 215-216: driver.quit() calls made when the try block is left
QuitsOnExitSuccessOnly(e) == IF e = "none" THEN 1 ELSE 0

QuitsOnExit(e) == 1

\* lines 107-114: what main_content.find_all is called on
ContentOrEmpty(d) ==
    IF MainContent(d) = 0
    THEN [raised |-> FALSE, tree |-> <<>>]
    ELSE extract_main_content(d)

ContentResult(d) == extract_main_content(d)

(***************************************************************************)
(* crawl_website                                                           *)
(***************************************************************************)
NoMeta == [k \in MetaKeys |-> Unset]

Idle ==
    /\ timeout = NoInt
    /\ exc = "none"
    /\ quits = 0
    /\ calls = {}
    /\ returned = [kind |-> "none"]
    /\ elapsed = NoInt
    /\ last_height = NoInt
    /\ readings = <<>>
    /\ cmds = 0
    /\ sleeps = 0
    /\ exit = None
    /\ dom = BlankPage
    /\ rule = 1
    /\ looked = NoMeta
    /\ metadata = NoMeta
    /\ selected = NotRun
    /\ clean_html = <<>>
    /\ markdown_content = NoText
    /\ text_content = NoText
    /\ screenshot_path = Unset
    /\ saved = {}

Init ==
    /\ pc = "start"
    /\ markdown = NoText
    /\ levels = <<>>
    /\ Idle

scrollVars == <<timeout, elapsed, last_height, readings, cmds,
                sleeps, exit>>
pageVars == <<dom, rule, looked, metadata>>
contentVars == <<selected, clean_html, markdown, levels, markdown_content>>
tailVars == <<text_content, screenshot_path, saved>>

\* an exception leaves the try block: control goes to the finally clause
Raise(e) ==
    /\ exc' = e
    /\ pc' = "finally"

\* line 170: outside the try block
ConfigureDriver ==
    /\ pc = "start"
    /\ \E ok \in BOOLEAN :
          IF ok
          THEN /\ pc' = "get"
               /\ UNCHANGED <<exc, returned>>
          ELSE /\ pc' = "done"
               /\ exc' = "DriverError"
               /\ returned' = [kind |-> "raised"]
    /\ UNCHANGED <<quits, calls, scrollVars, pageVars, contentVars, tailVars>>

\* lines 172-174: driver.get(url), then the call of dynamic_scroll with
\* the timeout the caller of crawl_website passed
Get ==
    /\ pc = "get"
    /\ calls' = calls \cup {"get"}
    /\ \E ok \in BOOLEAN :
          IF ok
          THEN \E t \in Timeouts :
                  /\ timeout' = t
                  /\ pc' = "scroll_init"
                  /\ UNCHANGED exc
          ELSE /\ Raise("LoadError")
               /\ UNCHANGED timeout
    /\ UNCHANGED <<quits, returned, elapsed, last_height, readings,
                   cmds, sleeps, exit, pageVars, contentVars, tailVars>>

\* lines 30-32: the first height read, then start_time = time.time()
ScrollInit ==
    /\ pc = "scroll_init"
    /\ calls' = calls \cup {"execute_script"}
    /\ \E ok \in BOOLEAN :
          IF ok
          THEN \E h \in Heights :
                  /\ last_height' = h
                  /\ readings' = <<h>>
                  /\ elapsed' = 0
                  /\ pc' = "scroll_test"
                  /\ UNCHANGED exc
          ELSE /\ Raise("ScriptError")
               /\ UNCHANGED <<last_height, readings, elapsed>>
    /\ UNCHANGED <<quits, returned, timeout, cmds, sleeps, exit,
                   pageVars, contentVars, tailVars>>

\* line 33
ScrollTest ==
    /\ pc = "scroll_test"
    /\ IF ScrollContinue(elapsed, timeout)
       THEN /\ pc' = "scroll_cmd"
            /\ UNCHANGED exit
       ELSE /\ pc' = "scroll_ret"
            /\ exit' = "timeout"
    /\ UNCHANGED <<exc, quits, calls, returned, timeout, elapsed,
                   last_height, readings, cmds, sleeps, pageVars,
                   contentVars, tailVars>>

\* line 34
ScrollCommand ==
    /\ pc = "scroll_cmd"
    /\ cmds' = cmds + 1
    /\ \E ok \in BOOLEAN :
          IF ok
          THEN /\ pc' = "scroll_sleep"
               /\ UNCHANGED exc
          ELSE Raise("ScriptError")
    /\ UNCHANGED <<quits, calls, returned, timeout, elapsed,
                   last_height, readings, sleeps, exit, pageVars,
                   contentVars, tailVars>>

\* line 35: the only step during which time passes
ScrollSleep ==
    /\ pc = "scroll_sleep"
    /\ sleeps' = sleeps + 1
    /\ elapsed' = elapsed + scroll_pause_time
    /\ pc' = "scroll_read"
    /\ UNCHANGED <<exc, quits, calls, returned, timeout,
                   last_height, readings, cmds, exit, pageVars, contentVars,
                   tailVars>>

\* lines 36-39
ScrollRead ==
    /\ pc = "scroll_read"
    /\ \E ok \in BOOLEAN :
          IF ok
          THEN \E new_height \in Heights :
                  /\ readings' = Append(readings, new_height)
                  /\ IF HeightStable(new_height, last_height)
                     THEN /\ pc' = "scroll_ret"
                          /\ exit' = "break"
                          /\ UNCHANGED last_height
                     ELSE /\ pc' = "scroll_test"
                          /\ last_height' = new_height
                          /\ UNCHANGED exit
                  /\ UNCHANGED exc
          ELSE /\ Raise("ScriptError")
               /\ UNCHANGED <<readings, last_height, exit>>
    /\ UNCHANGED <<quits, calls, returned, timeout, elapsed, cmds,
                   sleeps, pageVars, contentVars, tailVars>>

\* dynamic_scroll returns to line 177; its frame is gone, and the document
\* the page has built by now is what the later steps will find
ScrollReturn ==
    /\ pc = "scroll_ret"
    /\ pc' = "remove"
    /\ timeout' = NoInt
    /\ elapsed' = NoInt
    /\ last_height' = NoInt
    /\ readings' = <<>>
    /\ cmds' = 0
    /\ sleeps' = 0
    /\ exit' = None
    /\ \E d \in Docs : dom' = d
    /\ UNCHANGED <<exc, quits, calls, returned, rule, looked, metadata,
                   contentVars, tailVars>>

\* lines 82-88: one xpath of elements_to_remove; k elements are removed
\* before the handle raises (all of them when it does not), and the
\* exception is caught
RemoveRule ==
    /\ pc = "remove"
    /\ rule <= Len(elements_to_remove)
    /\ calls' = calls \cup {"find_elements"}
    /\ LET m == FindElements(dom, elements_to_remove[rule])
       IN  \E k \in 0..Cardinality(m) :
              dom' = Decompose(dom, FirstK(m, k))
    /\ rule' = rule + 1
    /\ UNCHANGED <<pc, exc, quits, returned, scrollVars, looked, metadata,
                   contentVars, tailVars>>

\* remove_unnecessary_elements returns; line 180 calls extract_metadata
RemoveReturn ==
    /\ pc = "remove"
    /\ rule > Len(elements_to_remove)
    /\ pc' = "meta"
    /\ UNCHANGED <<exc, quits, calls, returned, scrollVars, pageVars,
                   contentVars, tailVars>>

NextField ==
    CHOOSE i \in 1..(Len(MetaFields) + 1) :
        /\ \A k \in 1..(i - 1) : metadata[MetaFields[k]] # Unset
        /\ i <= Len(MetaFields) => metadata[MetaFields[i]] = Unset

\* lines 46-67: one field lookup with its try/except
MetaLookup ==
    /\ pc = "meta"
    /\ NextField <= Len(MetaFields)
    /\ calls' = calls \cup {"metadata"}
    /\ LET f == MetaFields[NextField]
       IN  \E o \in Outcomes(f) :
              IF o = "raise" /\ ~MetaCaught(f, o)
              THEN /\ Raise("NoSuchElementException")
                   /\ UNCHANGED <<looked, metadata>>
              ELSE /\ looked' = [looked EXCEPT
                                   ![f] = IF o = "ok" THEN "present"
                                          ELSE "missing"]
                   /\ metadata' = [metadata EXCEPT
                                   ![f] = IF o = "raise" THEN None
                                          ELSE LookupValue(f, o)]
                   /\ UNCHANGED <<pc, exc>>
    /\ UNCHANGED <<quits, returned, scrollVars, dom, rule, contentVars,
                   tailVars>>

\* lines 69-70
MetaReturn ==
    /\ pc = "meta"
    /\ NextField > Len(MetaFields)
    /\ metadata' = [metadata EXCEPT !["canonicalUrl"] = CurrentUrl]
    /\ pc' = "source"
    /\ UNCHANGED <<exc, quits, calls, returned, scrollVars, dom, rule,
                   looked, contentVars, tailVars>>

\* lines 183-184
ReadAndClean ==
    /\ pc = "source"
    /\ calls' = calls \cup {"page_source"}
    /\ clean_html' = parse_clean_html(dom)
    /\ pc' = "convert"
    /\ UNCHANGED <<exc, quits, returned, scrollVars, pageVars, selected,
                   markdown, levels, markdown_content, tailVars>>

\* line 185: convert_html_to_markdown_precise(clean_html), lines 123-144
Convert ==
    /\ pc = "convert"
    /\ selected' = MainContent(clean_html)
    /\ LET r == ContentResult(clean_html)
       IN  IF r.raised
           THEN /\ Raise("AttributeError")
                /\ UNCHANGED <<markdown, markdown_content>>
           ELSE /\ markdown' = Html2Text(r.tree)
                /\ markdown_content' = FormatMarkdown(Html2Text(r.tree))
                /\ pc' = "text"
                /\ UNCHANGED exc
    /\ UNCHANGED <<quits, calls, returned, scrollVars, pageVars, clean_html,
                   levels, tailVars>>

\* line 188
ReadText ==
    /\ pc = "text"
    /\ calls' = calls \cup {"find_element"}
    /\ \E ok \in BOOLEAN :
          IF ok
          THEN /\ text_content' = BodyText
               /\ pc' = "shot"
               /\ UNCHANGED exc
          ELSE /\ Raise("NoSuchElementException")
               /\ UNCHANGED text_content
    /\ UNCHANGED <<quits, returned, scrollVars, pageVars, contentVars,
                   screenshot_path, saved>>

\* line 191: capture_screenshot, lines 91-99
CaptureScreenshot ==
    /\ pc = "shot"
    /\ calls' = calls \cup {"save_screenshot"}
    /\ \E ok \in BOOLEAN :
          screenshot_path' = IF ok THEN ScreenshotFile ELSE None
    /\ pc' = "save"
    /\ UNCHANGED <<exc, quits, returned, scrollVars, pageVars, contentVars,
                   text_content, saved>>

\* lines 194-196: the three files save_content is called for
SavedFiles == {"content.html", "content.md", "content.txt"}

\* lines 194-196: three calls of save_content (lines 158-165); each one
\* either writes its file or fails in open/write, which it catches and
\* logs, so any subset of the files ends up written and nothing is raised
SaveContent ==
    /\ pc = "save"
    /\ \E written \in SUBSET SavedFiles : saved' = written
    /\ pc' = "return"
    /\ UNCHANGED <<exc, quits, calls, returned, scrollVars, pageVars,
                   contentVars, text_content, screenshot_path>>

\* lines 199-212
crawl_data ==
    [metadata |-> metadata,
     screenshotUrl |-> screenshot_path,
     text |-> Strip(text_content),
     html |-> clean_html,
     markdown |-> Strip(markdown_content)]

\* line 214: the return value is held while the finally clause runs
Return ==
    /\ pc = "return"
    /\ calls' = calls \cup {"current_url"}
    /\ returned' = [kind |-> "record", data |-> crawl_data]
    /\ pc' = "finally"
    /\ UNCHANGED <<exc, quits, scrollVars, pageVars, contentVars, tailVars>>

\* lines 215-216
Finally ==
    /\ pc = "finally"
    /\ quits' = quits + QuitsOnExit(exc)
    /\ calls' = calls \cup {"quit"}
    /\ returned' = IF exc = "none" THEN returned ELSE [kind |-> "raised"]
    /\ pc' = "done"
    /\ UNCHANGED <<exc, scrollVars, pageVars, contentVars, tailVars>>

Next ==
    \/ ConfigureDriver
    \/ Get
    \/ ScrollInit
    \/ ScrollTest
    \/ ScrollCommand
    \/ ScrollSleep
    \/ ScrollRead
    \/ ScrollReturn
    \/ RemoveRule
    \/ RemoveReturn
    \/ MetaLookup
    \/ MetaReturn
    \/ ReadAndClean
    \/ Convert
    \/ ReadText
    \/ CaptureScreenshot
    \/ SaveContent
    \/ Return
    \/ Finally

Spec == Init /\ [][Next]_vars

(***************************************************************************)
(* The post-processing of lines 137-141 on its own: the converter's output *)
(* is any short text, or the rendering of a few headings                   *)
(***************************************************************************)
Chars == {"a", " ", NL, "#"}
Texts == UNION {[1..n -> Chars] : n \in 0..MaxLen}
HeadingLevels == 1..6
HeadingDocs == UNION {[1..n -> HeadingLevels] : n \in 1..MaxHeadings}

FormatInit ==
    /\ pc = "format"
    /\ Idle
    /\ \/ /\ markdown \in Texts
          /\ levels = <<>>
       \/ \E ls \in HeadingDocs :
             /\ levels = ls
             /\ markdown = HeadingsText(ls)

\* lines 137-141
FormatStep ==
    /\ pc = "format"
    /\ markdown_content' = FormatMarkdown(markdown)
    /\ pc' = "formatted"
    /\ UNCHANGED <<exc, quits, calls, returned, scrollVars, pageVars,
                   selected, clean_html, markdown, levels, tailVars>>

FormatNext == FormatStep

FormatSpec == FormatInit /\ [][FormatNext]_vars

(***************************************************************************)
(* Properties                                                              *)
(***************************************************************************)
IsRecord(r) == r.kind = "record"

ScrollLoopPcs == {"scroll_test", "scroll_cmd", "scroll_sleep", "scroll_read"}
AfterConvertPcs == {"text", "shot", "save", "return", "finally", "done"}

NoEqualPair(rs) == \A i \in 1..(Len(rs) - 1) : rs[i] # rs[i + 1]

NoRoot(d) ==
    /\ Find(d, "main") = 0
    /\ Find(d, "article") = 0
    /\ Find(d, "body") = 0

\* C1: a run that acquired the driver calls driver.quit() exactly once by
\* its end, on every path; when driver.get fails the run ends with an
\* error, returns no record, and touches the handle with nothing but get
\* and quit.
C1_ReleasedExactlyOnce ==
    /\ quits <= 1
    /\ pc # "done" => quits = 0
    /\ (pc = "done" /\ exc # "DriverError") => quits = 1
    /\ exc = "LoadError" =>
          /\ calls \subseteq {"get", "quit"}
          /\ ~IsRecord(returned)
          /\ pc = "done" => returned.kind = "raised"

C1_LoadFailedAndReleased ==
    /\ pc = "done"
    /\ exc = "LoadError"
    /\ quits = 1
    /\ returned.kind = "raised"

\* C2: once the page has loaded, and unless the document turns out to have
\* no content subtree, the run ends by returning a record whatever single
\* step failed on the way.
C2_OtherFailuresNeverAbort ==
    (/\ pc = "done"
     /\ exc \notin {"DriverError", "LoadError"}
     /\ selected # 0)
        => IsRecord(returned)

\* C3: dynamic_scroll never lets more than timeout plus one settle interval
\* elapse, all of it spent in its sleeps, so it returns after at most that
\* long whatever heights it reads.
C3_ReturnsWithinTimeoutPlusPause ==
    elapsed # NoInt =>
        /\ elapsed = sleeps * scroll_pause_time
        /\ elapsed <= timeout + scroll_pause_time
        /\ pc \in ScrollLoopPcs \ {"scroll_test"} =>
              elapsed - (IF pc = "scroll_read" THEN scroll_pause_time ELSE 0)
                 < timeout

C3_TimedOutWhileGrowing ==
    /\ pc = "scroll_ret"
    /\ exit = "timeout"
    /\ elapsed > timeout
    /\ Len(readings) >= 3
    /\ \A i \in 1..(Len(readings) - 1) : readings[i] < readings[i + 1]

\* C4: dynamic_scroll leaves its loop at the first reading equal to the one
\* before it, having issued one scroll command and one pause per poll and
\* none after that reading; with no two consecutive readings equal it
\* leaves only once the elapsed time has reached the timeout.  Both are
\* normal returns.
C4_StopsAtFirstStableReading ==
    /\ pc \in ScrollLoopPcs => NoEqualPair(readings)
    /\ pc = "scroll_ret" =>
          /\ exc = "none"
          /\ cmds = Len(readings) - 1
          /\ sleeps = Len(readings) - 1
          /\ exit = "break" =>
                /\ Len(readings) >= 2
                /\ readings[Len(readings)] = readings[Len(readings) - 1]
                /\ NoEqualPair(SubSeq(readings, 1, Len(readings) - 1))
          /\ exit = "timeout" =>
                /\ NoEqualPair(readings)
                /\ elapsed >= timeout

C4_StableOnFirstPoll ==
    /\ pc = "scroll_ret"
    /\ exit = "break"
    /\ Len(readings) = 2
    /\ readings[1] = readings[2]
    /\ elapsed + scroll_pause_time < timeout

\* C5: extract_metadata never raises; a field the handle did not have is
\* None, a field it had keeps its value whatever the other lookups did, and
\* canonicalUrl is the handle's current URL once the function has returned.
C5_MetadataFieldsIndependent ==
    /\ \A i \in 1..Len(MetaFields) :
          LET f == MetaFields[i]
          IN  /\ looked[f] = "missing" => metadata[f] = None
              /\ looked[f] = "present" => metadata[f] = Content(f)
              /\ looked[f] = Unset => metadata[f] = Unset
    /\ exc = "NoSuchElementException" => "page_source" \in calls
    /\ "page_source" \in calls =>
          /\ metadata["canonicalUrl"] = CurrentUrl
          /\ \A k \in MetaKeys : metadata[k] # Unset

C5_SomeFieldsMissing ==
    /\ pc = "source"
    /\ looked["title"] = "missing"
    /\ looked["description"] = "present"
    /\ looked["author"] = "missing"
    /\ looked["language"] = "present"
    /\ metadata["description"] = Content("description")
    /\ metadata["author"] = None
    /\ metadata["canonicalUrl"] = CurrentUrl

\* C6: the subtree chosen as main content is the first main element of the
\* HTML read from the handle when it has one, else its first article, else
\* its body (each as cleaned by parse_clean_html).
C6_SelectsLandmarkOfSource ==
    (selected # NotRun /\ MainContent(dom) # 0) =>
        /\ selected # 0
        /\ Subtree(clean_html, selected)
              = parse_clean_html(Subtree(dom, MainContent(dom)))

\* C7: when the HTML read from the handle has no main, article or body
\* element, the run aborts with a raised exception: nothing is rendered to
\* Markdown, no later step runs and no record is returned.
C7_NoContentIsFatal ==
    (selected # NotRun /\ NoRoot(dom)) =>
        /\ selected = 0
        /\ pc \in {"finally", "done"}
        /\ exc = "AttributeError"
        /\ markdown = NoText
        /\ markdown_content = NoText
        /\ text_content = NoText
        /\ ~IsRecord(returned)
        /\ pc = "done" => returned.kind = "raised"

C7_AbortedAfterMetadataMiss ==
    /\ pc = "done"
    /\ NoRoot(dom)
    /\ Len(dom) > 0
    /\ selected = 0
    /\ exc = "AttributeError"
    /\ returned.kind = "raised"
    /\ metadata["author"] = None

\* the rule categories the filter is to remove
NoiseTags == {"header", "nav", "footer", "aside", "script", "style"}
NoiseSubstrings == {<<"a", "d">>, Str_modal, Str_cookie}
IsNoise(n) ==
    \/ n.tag \in NoiseTags
    \/ \E sub \in NoiseSubstrings : Contains(n.cls, sub) \/ Contains(n.id, sub)

\* C8: the tree left by parse_clean_html and the removal loop of
\* extract_main_content contains no element of any noise category: no
\* header, nav, footer, aside, script or style, and no element whose
\* attributes contain an advertising, modal or cookie substring.
C8_NoNoiseLeft ==
    selected > 0 =>
        LET out == StripContent(Subtree(clean_html, selected))
        IN  \A i \in 1..Len(out) : ~IsNoise(out[i])

\* C9: the returned Markdown has no run of three or more newlines and no
\* leading or trailing whitespace, whatever text the converter produced.
C9_NoTripleNewline ==
    pc = "formatted" =>
        /\ ~Contains(markdown_content, <<NL, NL, NL>>)
        /\ markdown_content # <<>> =>
              /\ markdown_content[1] \notin Whitespace
              /\ markdown_content[Len(markdown_content)] \notin Whitespace

\* the lines of a text
RECURSIVE Lines(_, _)
Lines(s, cur) ==
    IF s = <<>> THEN <<cur>>
    ELSE IF Head(s) = NL THEN <<cur>> \o Lines(Tail(s), <<>>)
    ELSE Lines(Tail(s), Append(cur, Head(s)))

RECURSIVE LeadingHashes(_)
LeadingHashes(l) ==
    IF l # <<>> /\ Head(l) = "#" THEN 1 + LeadingHashes(Tail(l)) ELSE 0

Min(a, b) == IF a <= b THEN a ELSE b

\* C10: there is one cap level C such that every heading of level n comes
\* out with exactly min(n, C) '#' characters.
C10_HeadingsClampedToOneCap ==
    (pc = "formatted" /\ levels # <<>>) =>
        LET out == Lines(markdown_content, <<>>)
        IN  /\ Len(out) = Len(levels)
            /\ \E C \in HeadingLevels :
                  \A i \in 1..Len(levels) :
                      LeadingHashes(out[i]) = Min(levels[i], C)

====
